---- MODULE Spec2Model ----
(***************************************************************************)
(* Model of hgp.py: the classicalcode and HGPCode classes and the          *)
(* BP_decoder function, as the source defines them.  A Python object is a  *)
(* record of the attributes it holds; a name that is not bound yet is the  *)
(* record Unbound and the Python value None is the record None.            *)
(***************************************************************************)
EXTENDS Integers, Sequences, FiniteSets, TLC

VARIABLES code, hgp, compileCalls, lastCall, bp

vars == <<code, hgp, compileCalls, lastCall, bp>>

(* ------------------------------ bounds -------------------------------- *)
\* largest code length n drawn
MaxN == 2
\* largest check count r drawn
MaxR == 2
\* largest number of entries of a check matrix drawn
MaxCells == 4
\* largest declared distance d drawn
MaxD == 2
\* largest number of compile_stabilizer() calls on one instance
MaxCalls == 2
\* longest syndrome passed to BP_decoder
MaxSyn == 4
\* largest explicit max_iterations passed to BP_decoder
MaxIter == 3

(* --------------------------- program values --------------------------- *)
\* default of the max_iterations parameter of BP_decoder
DefaultMaxIterations == 100

\* a name no object is bound to yet
Unbound == [unbound |-> TRUE]

\* the Python value None, which a body of `pass` returns
None == [none |-> TRUE]

\* entries a caller may put into an array: 0 and 1, and 2 as a value outside GF(2)
EntryValues == {0, 1, 2}

\* the numpy arrays of shape (nr, nc) with entries in E
Matrix(nr, nc, E) ==
    {[shape |-> <<nr, nc>>, rows |-> m] : m \in [1..nr -> [1..nc -> E]]}

Min(a, b) == IF a <= b THEN a ELSE b

\* argument tuples (n, r, d, checkmatrix) that respect the documented meaning
\* of the parameters: an r x n binary check matrix, 0 <= r <= n, d >= 1
ValidArgs ==
    UNION {UNION {
        {[n |-> n, r |-> r, d |-> d, checkmatrix |-> H] :
            d \in 1..MaxD, H \in Matrix(r, n, {0, 1})}
        : r \in {q \in 0..Min(n, MaxR) : q * n <= MaxCells}}
        : n \in 1..MaxN}

\* every argument tuple a caller can pass: the declared n and r need not
\* agree with the shape of the array, nor the entries lie in {0, 1}
AnyArgs ==
    UNION {UNION {
        {[n |-> n, r |-> r, d |-> d, checkmatrix |-> H] :
            n \in 1..MaxN, r \in 0..MaxR, d \in 1..MaxD,
            H \in Matrix(hr, hc, EntryValues)}
        : hr \in {q \in 0..MaxR : q * hc <= MaxCells}}
        : hc \in 1..MaxN}

\* the syndromes drawn: binary vectors of length 0..MaxSyn
Syndromes == UNION {[1..k -> {0, 1}] : k \in 0..MaxSyn}

\* the max_iterations values drawn, the default among them
IterationChoices == (0..MaxIter) \cup {DefaultMaxIterations}

(* ------------------------------ the code ------------------------------ *)
\* classicalcode.__init__: the attributes of the new instance
classicalcode__init__(n, r, d, checkmatrix) ==
    [n |-> n, r |-> r, d |-> d, checkmatrix |-> checkmatrix]

\* HGPCode.__init__ with code1.r typed for code2.r in the qubit count
HGPCode__init__wrongN(code1, code2) ==
    [code1 |-> code1,
     code2 |-> code2,
     N |-> code1.n * code2.n + (code1.r * code1.r),
     K |-> (code1.n - code1.r) * (code2.n - code2.r),
     D |-> Min(code1.d, code2.d)]

\* HGPCode.__init__ with code1.r typed for code2.r in the second factor of K
HGPCode__init__wrongK(code1, code2) ==
    [code1 |-> code1,
     code2 |-> code2,
     N |-> code1.n * code2.n + (code1.r * code2.r),
     K |-> (code1.n - code1.r) * (code2.n - code1.r),
     D |-> Min(code1.d, code2.d)]

\* HGPCode.__init__: the attributes of the new instance
HGPCode__init__(code1, code2) ==
    [code1 |-> code1,
     code2 |-> code2,
     N |-> code1.n * code2.n + (code1.r * code2.r),
     K |-> (code1.n - code1.r) * (code2.n - code2.r),
     D |-> Min(code1.d, code2.d)]

\* the outcome of a call: the value returned, the exception raised (if any),
\* and whether compile_stabilizer() had returned on the instance before it
Outcome(op, ret, raised) ==
    [op |-> op, ret |-> ret, raised |-> raised, compiled |-> compileCalls > 0]

\* the state of the call record before any call was made
NoCall == [op |-> "none", ret |-> None, raised |-> "none", compiled |-> FALSE]

Init ==
    /\ code = [slot \in {1, 2} |-> Unbound]
    /\ hgp = Unbound
    /\ compileCalls = 0
    /\ lastCall = NoCall
    /\ bp = Unbound

\* codeN = classicalcode(n, r, d, checkmatrix), arguments drawn from Args
NewClassicalCode(slot, Args) ==
    /\ code[slot] = Unbound
    /\ \E a \in Args :
         code' = [code EXCEPT ![slot] =
                     classicalcode__init__(a.n, a.r, a.d, a.checkmatrix)]
    /\ lastCall' = Outcome("classicalcode", None, "none")
    /\ UNCHANGED <<hgp, compileCalls, bp>>

\* codeN.calc_codewords(): body is `pass`
calc_codewords ==
    /\ \E slot \in {1, 2} : code[slot] # Unbound
    /\ lastCall' = Outcome("calc_codewords", None, "none")
    /\ UNCHANGED <<code, hgp, compileCalls, bp>>

\* hgp = HGPCode(code1, code2)
NewHGPCode ==
    /\ code[1] # Unbound
    /\ code[2] # Unbound
    /\ hgp = Unbound
    /\ hgp' = HGPCode__init__(code[1], code[2])
    /\ lastCall' = Outcome("HGPCode", None, "none")
    /\ UNCHANGED <<code, compileCalls, bp>>

\* a compile_stabilizer that stacks the rows of H1 onto whatever HX the
\* instance already holds, so that every call grows the matrix
compile_stabilizer_stacking(self) ==
    LET H1 == self.code1.checkmatrix
    IN  IF "HX" \in DOMAIN self
        THEN [self EXCEPT !.HX.rows = @ \o H1.rows,
                          !.HX.shape[1] = @ + H1.shape[1]]
        ELSE self @@ [HX |-> H1]

\* the attributes of the instance after the body of compile_stabilizer: `pass`
compile_stabilizer_body(self) == self

\* hgp.compile_stabilizer()
compile_stabilizer ==
    /\ hgp # Unbound
    /\ compileCalls < MaxCalls
    /\ hgp' = compile_stabilizer_body(hgp)
    /\ compileCalls' = compileCalls + 1
    /\ lastCall' = Outcome("compile_stabilizer", None, "none")
    /\ UNCHANGED <<code, bp>>

\* hgp.calc_logical_operators(): body is `pass`
calc_logical_operators ==
    /\ hgp # Unbound
    /\ lastCall' = Outcome("calc_logical_operators", None, "none")
    /\ UNCHANGED <<code, hgp, compileCalls, bp>>

\* hgp.visualization(): body is `pass`
visualization ==
    /\ hgp # Unbound
    /\ lastCall' = Outcome("visualization", None, "none")
    /\ UNCHANGED <<code, hgp, compileCalls, bp>>

\* BP_decoder(syndrome, max_iterations): body is `pass`, so no round runs
BP_decoder ==
    /\ \E syndrome \in Syndromes, max_iterations \in IterationChoices :
         bp' = [syndrome |-> syndrome, max_iterations |-> max_iterations,
                rounds |-> 0, ret |-> None, raised |-> "none"]
    /\ UNCHANGED <<code, hgp, compileCalls, lastCall>>

\* a program that builds two well-formed codes and their product
Next ==
    \/ NewClassicalCode(1, ValidArgs)
    \/ NewClassicalCode(2, ValidArgs)
    \/ calc_codewords
    \/ NewHGPCode
    \/ compile_stabilizer
    \/ calc_logical_operators
    \/ visualization

Spec == Init /\ [][Next]_vars

\* a program that calls the classicalcode constructor with arbitrary arguments
NextCode ==
    \/ NewClassicalCode(1, AnyArgs)
    \/ calc_codewords

SpecCode == Init /\ [][NextCode]_vars

\* a program that calls the decoder
NextBP == BP_decoder

SpecBP == Init /\ [][NextBP]_vars

(* ------------------------- GF(2) linear algebra ----------------------- *)
\* the nr x nc matrix whose (i, j) entry is F(i, j)
MkMatrix(nr, nc, F(_, _)) ==
    [shape |-> <<nr, nc>>, rows |-> [i \in 1..nr |-> [j \in 1..nc |-> F(i, j)]]]

Identity(k) == MkMatrix(k, k, LAMBDA i, j : IF i = j THEN 1 ELSE 0)

Transpose(A) == MkMatrix(A.shape[2], A.shape[1], LAMBDA i, j : A.rows[j][i])

\* Kronecker product of A and B
Kron(A, B) ==
    LET br == B.shape[1]
        bc == B.shape[2]
    IN  MkMatrix(A.shape[1] * br, A.shape[2] * bc,
                 LAMBDA i, j :
                    A.rows[((i - 1) \div br) + 1][((j - 1) \div bc) + 1]
                    * B.rows[((i - 1) % br) + 1][((j - 1) % bc) + 1])

\* [A | B], for A and B with the same number of rows
HStack(A, B) ==
    MkMatrix(A.shape[1], A.shape[2] + B.shape[2],
             LAMBDA i, j : IF j <= A.shape[2] THEN A.rows[i][j]
                           ELSE B.rows[i][j - A.shape[2]])

RECURSIVE Dot(_, _, _)
\* the sum of u[k] * v[k] over k in 1..len
Dot(u, v, len) ==
    IF len = 0 THEN 0 ELSE u[len] * v[len] + Dot(u, v, len - 1)

\* A * B^T (mod 2), for A and B with the same number of columns
MulT(A, B) ==
    MkMatrix(A.shape[1], B.shape[1],
             LAMBDA i, j : Dot(A.rows[i], B.rows[j], A.shape[2]) % 2)

IsZero(A) ==
    \A i \in 1..A.shape[1] : \A j \in 1..A.shape[2] : A.rows[i][j] = 0

XorVec(u, v) == [k \in 1..Len(u) |-> (u[k] + v[k]) % 2]

RECURSIVE RowSpace(_, _)
\* the GF(2) span of the rows of a matrix with nc columns
RowSpace(rows, nc) ==
    IF rows = <<>> THEN {[k \in 1..nc |-> 0]}
    ELSE LET S == RowSpace(Tail(rows), nc)
         IN  S \cup {XorVec(Head(rows), v) : v \in S}

RECURSIVE Log2(_)
Log2(k) == IF k <= 1 THEN 0 ELSE 1 + Log2(k \div 2)

\* the GF(2) rank of a binary matrix: its row space has 2^rank vectors
Rank(A) == Log2(Cardinality(RowSpace(A.rows, A.shape[2])))

\* the stabilizer matrices of the hypergraph product of H1 and H2
ExpectedHX(H1, H2) ==
    HStack(Kron(H1, Identity(H2.shape[2])), Kron(Identity(H1.shape[1]), Transpose(H2)))

ExpectedHZ(H1, H2) ==
    HStack(Kron(Identity(H1.shape[2]), H2), Kron(Transpose(H1), Identity(H2.shape[1])))

\* the stabilizer attributes the instance holds, by name
StabilizerPair(self) == [a \in {"HX", "HZ"} \cap DOMAIN self |-> self[a]]

HasHGP == hgp # Unbound

(* ------------------------------- claims ------------------------------- *)
\* C1: once compile_stabilizer() has returned, the instance holds
\* HX = [H1 (x) I_n2 | I_r1 (x) H2^T] and HZ = [I_n1 (x) H2 | H1^T (x) I_r2],
\* and HX * HZ^T = 0 (mod 2).
C1_StabilizerBuilt ==
    (HasHGP /\ compileCalls > 0) =>
        /\ {"HX", "HZ"} \subseteq DOMAIN hgp
        /\ hgp.HX = ExpectedHX(code[1].checkmatrix, code[2].checkmatrix)
        /\ hgp.HZ = ExpectedHZ(code[1].checkmatrix, code[2].checkmatrix)
        /\ IsZero(MulT(hgp.HX, hgp.HZ))

\* C2: the attribute K of every HGPCode is (n1 - rank(H1)) * (n2 - rank(H2)),
\* rank being the GF(2) rank of the check matrix, also when it is below r.
C2_KFromRank ==
    HasHGP =>
        hgp.K = (code[1].n - Rank(code[1].checkmatrix))
                * (code[2].n - Rank(code[2].checkmatrix))

\* C3: the attribute N of every HGPCode is n1*n2 + r1*r2.
C3_QubitCount ==
    HasHGP => hgp.N = code[1].n * code[2].n + code[1].r * code[2].r

\* an HGPCode exists whose two codes both have checks and more than one bit
C3_Witness ==
    /\ HasHGP
    /\ code[1].r >= 1 /\ code[2].r >= 1
    /\ code[1].n >= 2 /\ code[2].n >= 2
    /\ code[1].r # code[2].r

\* the value is a pair (LX, LZ) of K binary vectors of length N each,
\* with LX * LZ^T = I_K (mod 2)
IsLogicalPair(v, N, K) ==
    /\ {"LX", "LZ"} \subseteq DOMAIN v
    /\ v.LX.shape = <<K, N>>
    /\ v.LZ.shape = <<K, N>>
    /\ MulT(v.LX, v.LZ) = Identity(K)

\* C4: calc_logical_operators(), called after compile_stabilizer(), returns
\* LX and LZ with |LX| = |LZ| = K and LX * LZ^T = I_K (mod 2).
C4_LogicalPairs ==
    (lastCall.op = "calc_logical_operators" /\ lastCall.compiled) =>
        /\ lastCall.raised = "none"
        /\ IsLogicalPair(lastCall.ret, hgp.N, hgp.K)

\* the value is a decoder result (error_estimate, converged, iterations_used)
IsDecodeResult(v) ==
    /\ {"error_estimate", "converged", "iterations_used"} \subseteq DOMAIN v
    /\ v.converged \in BOOLEAN

\* C6: BP_decoder runs at most max_iterations rounds and never raises; a call
\* that has not found a satisfying estimate returns its best-effort estimate
\* with converged = FALSE.
C6_BoundedNonConvergence ==
    bp # Unbound =>
        /\ bp.rounds <= bp.max_iterations
        /\ bp.raised = "none"
        /\ IsDecodeResult(bp.ret)
        /\ (bp.rounds = 0 /\ \E k \in DOMAIN bp.syndrome : bp.syndrome[k] = 1)
              => bp.ret.converged = FALSE

\* C7: calc_logical_operators() called before compile_stabilizer() has
\* returned fails with PrecomputeMissingError.
C7_PrecomputeMissing ==
    (lastCall.op = "calc_logical_operators" /\ ~lastCall.compiled) =>
        lastCall.raised = "PrecomputeMissingError"

\* C8: every classicalcode instance has a check matrix of shape (r, n) with
\* entries in {0, 1}; other arguments are rejected by the constructor.
C8_ValidatedCode ==
    \A slot \in {1, 2} :
        code[slot] # Unbound =>
            LET H == code[slot].checkmatrix
            IN  /\ H.shape = <<code[slot].r, code[slot].n>>
                /\ \A i \in 1..H.shape[1] : \A j \in 1..H.shape[2] :
                       H.rows[i][j] \in {0, 1}

====
